---- MODULE Spec2Model ----
(***************************************************************************)
(* State-machine model of the WaitlistCard component                       *)
(* (src/src/components/WaitlistModal.tsx) and of the Toast it renders      *)
(* (src/unnamed/part_004).                                                 *)
(*                                                                         *)
(* Strings typed by the user are sequences of one-character strings, so    *)
(* that trim() and the e-mail pattern are computed, not assumed.           *)
(* Optional props and nullable state use the value None; the widget handle *)
(* uses NoWidget (the ref's null).                                         *)
(***************************************************************************)
EXTENDS Naturals, Sequences, FiniteSets

(* ------------------------------------------------------------------ *)
(* Bounds of the model                                                *)
(* ------------------------------------------------------------------ *)
MaxWidgets == 2
MaxInFlight == 2
MaxCloseTimers == 1
MaxEmailLen == 4

(* ------------------------------------------------------------------ *)
(* Values                                                             *)
(* ------------------------------------------------------------------ *)
None == "undefined"
NoWidget == 0

ErrFirstRequired == "First name is required"
ErrLastRequired == "Last name is required"
ErrEmailRequired == "Email address is required"
ErrEmailInvalid == "Please enter a valid email address"
ErrVerifyMissing == "Please complete the verification"
ErrVerifyFailed == "Verification failed. Please try again."

NoErrors == [FNAME |-> None, LNAME |-> None, EMAIL |-> None, turnstile |-> None]

(* ------------------------------------------------------------------ *)
(* JavaScript helpers                                                 *)
(* ------------------------------------------------------------------ *)
\* truthiness of an optional string prop
Truthy(x) == x # None /\ x # ""

\* \s restricted to the characters of the model
IsSpace(c) == c = " "

RECURSIVE TrimStart(_)
TrimStart(s) ==
  IF s = <<>> THEN s
  ELSE IF IsSpace(Head(s)) THEN TrimStart(Tail(s)) ELSE s

RECURSIVE TrimEnd(_)
TrimEnd(s) ==
  IF s = <<>> THEN s
  ELSE IF IsSpace(s[Len(s)]) THEN TrimEnd(SubSeq(s, 1, Len(s) - 1)) ELSE s

\* String.prototype.trim
Trim(s) == TrimEnd(TrimStart(s))

\* [^\s@]
Plain(c) == ~IsSpace(c) /\ c # "@"

\* (mutant) the pattern with the middle group optional: [^\s@]*
EmailRegexTestNoMiddle(s) ==
  \E i \in 1..Len(s) : \E j \in 1..Len(s) :
    /\ 1 < i /\ i < j /\ j < Len(s)
    /\ s[i] = "@" /\ s[j] = "."
    /\ \A k \in 1..Len(s) : k # i => Plain(s[k])

\* /^[^\s@]+@[^\s@]+\.[^\s@]+$/.test(s): some split  L @ M . T  with L, M, T
\* non-empty runs of [^\s@]
EmailRegexTest(s) ==
  \E i \in 1..Len(s) : \E j \in 1..Len(s) :
    /\ 1 < i /\ i + 1 < j /\ j < Len(s)
    /\ s[i] = "@" /\ s[j] = "."
    /\ \A k \in 1..Len(s) : k # i => Plain(s[k])

(* ------------------------------------------------------------------ *)
(* State                                                              *)
(* ------------------------------------------------------------------ *)
VARIABLES
  cfg,                    \* props that stay fixed for the component's life
  turnstileSiteKey,       \* prop: site key, None when not supplied
  controlledIsSuccess,    \* prop isSuccess: "undefined", "true" or "false"
  controlledIsSubmitting, \* prop isSubmitting: "undefined", "true" or "false"
  mounted,
  listeners,              \* registered pairs of document listeners (mousedown, keydown)
  internalIsSubmitting, internalIsSuccess,
  FNAME, LNAME, EMAIL, honeypotValue,
  showToast, errors,
  turnstileToken,
  turnstileWidgetIdRef,   \* handle of the rendered widget, NoWidget when null
  hasCleanup,             \* the last run of the widget effect returned its cleanup
  checkInterval, timeout, \* the effect's 100ms interval / 10s timer is pending
  scriptLoaded,           \* window.turnstile is defined
  liveWidgets,            \* widgets rendered and not removed (widget library)
  detached,               \* live widgets whose container element was discarded
  nextWidgetId,           \* id the widget library hands out next
  inFlight,               \* handleSubmit calls suspended at their await
  toastExitTimer, toastExiting, toastCloseTimers,
  last                    \* what the last step did (observation only)

propVars == <<cfg, turnstileSiteKey, controlledIsSuccess, controlledIsSubmitting>>
formVars == <<FNAME, LNAME, EMAIL, honeypotValue, errors>>
statusVars == <<internalIsSubmitting, internalIsSuccess, showToast, inFlight>>
widgetVars == <<turnstileWidgetIdRef, hasCleanup, checkInterval, timeout,
                liveWidgets, nextWidgetId>>
toastVars == <<toastExitTimer, toastExiting, toastCloseTimers>>
vars == <<propVars, mounted, listeners, formVars, statusVars, turnstileToken, widgetVars,
          detached, scriptLoaded, toastVars, last>>

(* ------------------------------------------------------------------ *)
(* Derived state (computed on every render)                           *)
(* ------------------------------------------------------------------ *)
\* (mutant) a callback alone selects controlled mode
IsControlledByCallback(onSubmit, flag) == onSubmit

IsControlledOf(onSubmit, flag) == onSubmit /\ flag # "undefined"

isControlled == IsControlledOf(cfg.onSubmit, controlledIsSuccess)

IsSubmittingOf(ctl, flag, internal) ==
  IF ctl THEN (IF flag = "undefined" THEN FALSE ELSE flag = "true") ELSE internal

isSubmitting ==
  IsSubmittingOf(isControlled, controlledIsSubmitting, internalIsSubmitting)

\* (mutant) the displayed success is always the internal one
IsSuccessOfInternal(ctl, flag, internal) == internal

IsSuccessOf(ctl, flag, internal) == IF ctl THEN flag = "true" ELSE internal

isSuccess == IsSuccessOf(isControlled, controlledIsSuccess, internalIsSuccess)

\* the form (and not the success view) is rendered
formShown == mounted /\ ~isSuccess

\* turnstileContainerRef.current is an element
ContainerOf(m, key, success) == m /\ Truthy(key) /\ ~success

turnstileContainerRef == ContainerOf(mounted, turnstileSiteKey, isSuccess)

\* disabled attribute of the submit button
submitDisabled ==
  isSubmitting \/ (Truthy(turnstileSiteKey) /\ turnstileToken = None
                   /\ ~cfg.turnstileManaged)

(* ------------------------------------------------------------------ *)
(* validateForm (WaitlistModal.tsx 278-307)                           *)
(* ------------------------------------------------------------------ *)
\* (mutant) the honeypot is never looked at
HoneypotIgnored(hpName, hp) == FALSE

\* the honeypot check that rejects silently
HoneypotTripped(hpName, hp) == Truthy(hpName) /\ Trim(hp) # <<>>

\* (mutant) the first name is compared without trimming
FirstNameErrorNoTrim(f) == IF f = <<>> THEN ErrFirstRequired ELSE None

FirstNameError(f) == IF Trim(f) = <<>> THEN ErrFirstRequired ELSE None

LastNameError(l) == IF Trim(l) = <<>> THEN ErrLastRequired ELSE None

EmailError(e) ==
  IF Trim(e) = <<>> THEN ErrEmailRequired
  ELSE IF ~EmailRegexTest(e) THEN ErrEmailInvalid
  ELSE None

\* (mutant) a missing token is never an error
TurnstileErrorNever(key, tok, managed) == None

\* (mutant) managed mode is not exempted
TurnstileErrorAlsoManaged(key, tok, managed) ==
  IF Truthy(key) /\ tok = None THEN ErrVerifyMissing ELSE None

TurnstileError(key, tok, managed) ==
  IF Truthy(key) /\ tok = None /\ ~managed THEN ErrVerifyMissing ELSE None

\* newErrors of a pass that got past the honeypot check
NewErrors(f, l, e, key, tok, managed) ==
  [FNAME |-> FirstNameError(f), LNAME |-> LastNameError(l),
   EMAIL |-> EmailError(e), turnstile |-> TurnstileError(key, tok, managed)]

\* (mutant) the pass merges its errors into the map held before
validateFormMerging(f, l, e, hp, hpName, key, tok, managed, old) ==
  IF HoneypotTripped(hpName, hp)
  THEN [silent |-> TRUE, errors |-> old, ok |-> FALSE]
  ELSE LET n == NewErrors(f, l, e, key, tok, managed)
       IN [silent |-> FALSE,
           errors |-> [k \in DOMAIN n |-> IF n[k] # None THEN n[k] ELSE old[k]],
           ok |-> n = NoErrors]

\* result of validateForm: silent (rejected by the honeypot, setErrors not
\* called), the error map it sets, and its return value
validateForm(f, l, e, hp, hpName, key, tok, managed, old) ==
  IF HoneypotTripped(hpName, hp)
  THEN [silent |-> TRUE, errors |-> old, ok |-> FALSE]
  ELSE LET n == NewErrors(f, l, e, key, tok, managed)
       IN [silent |-> FALSE, errors |-> n, ok |-> n = NoErrors]

(* ------------------------------------------------------------------ *)
(* Payloads (WaitlistModal.tsx 323-329, 339-360): functions from key  *)
(* to value, built in the order the code assigns the keys             *)
(* ------------------------------------------------------------------ *)
TokenKey == "cf-turnstile-response"

\* nothing dispatched
NoPayload == <<>>

\* obj[k] = v: a later assignment to a key replaces the earlier one
Put(p, k, v) == [x \in DOMAIN p \cup {k} |-> IF x = k THEN v ELSE p[x]]

\* (mutant) the token is never added
WithTokenNever(p, tok) == p

\* ...(turnstileToken && {...}) / if (turnstileToken)
WithToken(p, tok) == IF Truthy(tok) THEN Put(p, TokenKey, tok) ELSE p

\* ...(honeypotFieldName && {...}) / if (honeypotFieldName)
WithHoneypot(p, hpName, hp) == IF Truthy(hpName) THEN Put(p, hpName, hp) ELSE p

\* if (tags)
WithTags(p, tags) == IF Truthy(tags) THEN Put(p, "tags", tags) ELSE p

\* the object passed to onSubmit
formData(e, f, l, tok, hpName, hp) ==
  WithHoneypot(WithToken([EMAIL |-> e, FNAME |-> f, LNAME |-> l], tok), hpName, hp)

\* the object posted to actionUrl
submitData(e, f, l, tags, tok, hpName, hp) ==
  WithHoneypot(WithToken(WithTags([EMAIL |-> e, FNAME |-> f, LNAME |-> l], tags),
                         tok), hpName, hp)

(* ------------------------------------------------------------------ *)
(* The widget effect (WaitlistModal.tsx 181-251), on a record         *)
(*   [handle, live, next, interval, timeout, cleanup]                 *)
(* ------------------------------------------------------------------ *)
WidgetState ==
  [handle |-> turnstileWidgetIdRef, live |-> liveWidgets, next |-> nextWidgetId,
   interval |-> checkInterval, timeout |-> timeout, cleanup |-> hasCleanup]

\* initTurnstile: render one widget unless a handle is held
initTurnstile(script, container, w) ==
  IF script /\ container /\ w.handle = NoWidget
  THEN [w EXCEPT !.handle = w.next, !.live = w.live \cup {w.next},
                 !.next = w.next + 1]
  ELSE w

\* the effect body; the previous run's cleanup has already run
effectBody(key, container, script, w) ==
  IF ~Truthy(key) \/ ~container THEN [w EXCEPT !.cleanup = FALSE]
  ELSE IF w.handle # NoWidget THEN [w EXCEPT !.cleanup = FALSE]
  ELSE IF script
       THEN [initTurnstile(script, container, w) EXCEPT !.cleanup = TRUE]
       ELSE [w EXCEPT !.interval = TRUE, !.timeout = TRUE, !.cleanup = TRUE]

\* (mutant) the cleanup forgets the handle without removing the widget
effectCleanupKeepsWidget(script, w) ==
  IF ~w.cleanup THEN w
  ELSE [w EXCEPT !.interval = FALSE, !.timeout = FALSE, !.cleanup = FALSE,
                 !.handle = NoWidget]

\* (mutant) the cleanup removes the widget and leaves the timers running
effectCleanupKeepsTimers(script, w) ==
  IF ~w.cleanup THEN w
  ELSE IF w.handle # NoWidget /\ script
       THEN [w EXCEPT !.cleanup = FALSE,
                      !.live = w.live \ {w.handle}, !.handle = NoWidget]
       ELSE [w EXCEPT !.cleanup = FALSE]

\* (mutant) the cleanup removes the widget and keeps its handle in the ref
effectCleanupKeepsHandle(script, w) ==
  IF ~w.cleanup THEN w
  ELSE IF w.handle # NoWidget /\ script
       THEN [w EXCEPT !.interval = FALSE, !.timeout = FALSE, !.cleanup = FALSE,
                      !.live = w.live \ {w.handle}]
       ELSE [w EXCEPT !.interval = FALSE, !.timeout = FALSE, !.cleanup = FALSE]

\* the function the effect returned, if it returned one
effectCleanup(script, w) ==
  IF ~w.cleanup THEN w
  ELSE IF w.handle # NoWidget /\ script
       THEN [w EXCEPT !.interval = FALSE, !.timeout = FALSE, !.cleanup = FALSE,
                      !.live = w.live \ {w.handle}, !.handle = NoWidget]
       ELSE [w EXCEPT !.interval = FALSE, !.timeout = FALSE, !.cleanup = FALSE]

\* a change of one of the effect's dependencies: cleanup, then the body
effectRerun(key, container, script, w) ==
  effectBody(key, container, script, effectCleanup(script, w))

\* the callback of setInterval (221-226)
intervalCallback(container, script, w) ==
  IF script THEN initTurnstile(script, container, [w EXCEPT !.interval = FALSE])
  ELSE w

SetWidgetState(w) ==
  /\ turnstileWidgetIdRef' = w.handle
  /\ liveWidgets' = w.live
  /\ nextWidgetId' = w.next
  /\ checkInterval' = w.interval
  /\ timeout' = w.timeout
  /\ hasCleanup' = w.cleanup

\* (mutant) resetTurnstile never reaches the widget
resetTargetNone(handle, script) == NoWidget

\* resetTurnstile (309-314): the widget reset() is called on, NoWidget if none
resetTarget(handle, script) == IF handle # NoWidget /\ script THEN handle ELSE NoWidget

(* ------------------------------------------------------------------ *)
(* The click-outside effect (WaitlistModal.tsx 254-276), on the       *)
(* number of registered listener pairs                                *)
(* ------------------------------------------------------------------ *)
\* (mutant) the cleanup leaves the listeners registered
clickOutsideCleanupKeeps(dismissible, n) == n

\* removeEventListener for both, if the effect returned its cleanup
clickOutsideCleanup(dismissible, n) == IF dismissible THEN n - 1 ELSE n

\* addEventListener for both, unless the effect returned early
clickOutsideBody(dismissible, n) == IF dismissible THEN n + 1 ELSE n

\* calls of onClose made by one event dispatched to n listeners (onClose?.())
onCloseCalls(onClose, n) == IF onClose THEN n ELSE 0

(* ------------------------------------------------------------------ *)
(* What a commit does besides the handler's own assignments           *)
(* ------------------------------------------------------------------ *)
\* widgets whose container element is discarded by this commit become detached
Discard ==
  detached' = (IF turnstileContainerRef /\ ~turnstileContainerRef'
               THEN liveWidgets' ELSE detached) \cap liveWidgets'

\* (mutant) the Toast never arms its exit timer
ToastRenderNoTimer(rerendered) ==
  /\ toastExitTimer' = FALSE
  /\ toastExiting' = FALSE
  /\ UNCHANGED toastCloseTimers

\* The Toast is mounted while showToast holds. Its effect (part_004 19-38)
\* depends on onClose, a new function on every render of the card: each
\* re-render of the card clears and restarts the exit timer.
ToastRender(rerendered) ==
  LET was == mounted /\ showToast
      is == mounted' /\ showToast'
  IN /\ toastExitTimer' = IF is THEN (IF was /\ ~rerendered THEN toastExitTimer
                                     ELSE TRUE)
                          ELSE FALSE
     /\ toastExiting' = IF is /\ was THEN toastExiting ELSE FALSE
     /\ UNCHANGED toastCloseTimers

Commit(rerendered) == Discard /\ ToastRender(rerendered)

\* observation of a step: the handler that ran, whether validation reached the
\* field rules, whether the handler went past its guard, whether the host's
\* onSubmit was called, what was started ("fetch", "delay" or "none"), the
\* widget reset() was called on, how many times onClose was called, the
\* payload handed to onSubmit or to fetch, and the string a widget passed to
\* its success callback
Step(op) == [op |-> op, validated |-> FALSE, accepted |-> FALSE,
             onSubmit |-> FALSE, started |-> "none", reset |-> NoWidget,
             onClose |-> 0, payload |-> NoPayload, token |-> None]

(* ------------------------------------------------------------------ *)
(* Input domains                                                      *)
(* ------------------------------------------------------------------ *)
ValidEmail == <<"a", "@", "b", ".", "c">>

\* what the user types in the lifecycle specification: valid values only
NameTyped == {<<"a">>}
EmailTyped == {ValidEmail}

\* what the user types in the form specification
NameValues == {<<>>, <<" ">>, <<"a">>}
EmailValues == {<<>>, <<" ">>, <<"a", "@", "b">>, ValidEmail}
HoneypotValues == {<<>>, <<" ">>, <<"x">>}

\* the e-mail specification: every string over a letter, '@', '.' and a space
\* up to MaxEmailLen characters, and the strings the documentation names
EmailChars == {"a", "@", ".", " "}
NotAnEmail == <<"n", "o", "t", "-", "a", "n", "-", "e", "m", "a", "i", "l">>
AtB == <<"a", "@", "b">>
TrailingSpace == <<"a", "@", "b", ".", "c", " ">>
UserExample == <<"u", "s", "e", "r", "@", "e", "x", "a", "m", "p", "l", "e",
                 ".", "c", "o", "m">>
EmailInputs ==
  UNION {[1..n -> EmailChars] : n \in 0..MaxEmailLen}
    \cup {NotAnEmail, AtB, TrailingSpace, UserExample, ValidEmail}

Tokens == {"t1", "t2"}
FormTokens == {"t1"}
SiteKeys == {"k1"}
Flags == {"true", "false"}

\* every mode, with and without a URL, managed or not; no honeypot
Configs ==
  [onSubmit : BOOLEAN, isSuccessGiven : BOOLEAN, actionUrl : {None, "url"},
   tags : {None}, honeypotFieldName : {None},
   turnstileManaged : BOOLEAN, dismissible : {FALSE},
   onClose : {FALSE}]

\* uncontrolled, no URL, no widget, no honeypot
PlainConfigs ==
  [onSubmit : {FALSE}, isSuccessGiven : {FALSE}, actionUrl : {None},
   tags : {None}, honeypotFieldName : {None},
   turnstileManaged : {FALSE}, dismissible : {FALSE},
   onClose : {FALSE}]

\* uncontrolled, with and without a widget, dismissible or not, with and
\* without an onClose callback
DismissConfigs ==
  [onSubmit : {FALSE}, isSuccessGiven : {FALSE}, actionUrl : {None},
   tags : {None}, honeypotFieldName : {None},
   turnstileManaged : {FALSE}, dismissible : BOOLEAN,
   onClose : BOOLEAN]

\* controlled or uncontrolled, with and without a URL, a tag, a honeypot
\* field (named apart from the fixed keys, or like one of them)
PayloadConfigs ==
  [onSubmit : BOOLEAN, isSuccessGiven : BOOLEAN, actionUrl : {None, "url"},
   tags : {None, "tag"}, honeypotFieldName : {None, "hp", "EMAIL"},
   turnstileManaged : BOOLEAN, dismissible : {FALSE},
   onClose : {FALSE}]

\* the same with and without a honeypot field
FormConfigs ==
  [onSubmit : BOOLEAN, isSuccessGiven : BOOLEAN, actionUrl : {None, "url"},
   tags : {None}, honeypotFieldName : {None, "hp"},
   turnstileManaged : BOOLEAN, dismissible : {FALSE},
   onClose : {FALSE}]

(* ------------------------------------------------------------------ *)
(* Mount: state after the first render and the first run of the effect *)
(* ------------------------------------------------------------------ *)
NoWidgetState ==
  [handle |-> NoWidget, live |-> {}, next |-> 1,
   interval |-> FALSE, timeout |-> FALSE, cleanup |-> FALSE]

InitWith(configs, keys, scripts) ==
  /\ cfg \in configs
  /\ turnstileSiteKey \in keys
  /\ controlledIsSuccess \in (IF cfg.isSuccessGiven THEN Flags ELSE {"undefined"})
  /\ controlledIsSubmitting = "undefined"
  /\ mounted = TRUE
  /\ listeners = clickOutsideBody(cfg.dismissible, 0)
  /\ internalIsSubmitting = FALSE
  /\ internalIsSuccess = FALSE
  /\ FNAME = <<>> /\ LNAME = <<>> /\ EMAIL = <<>> /\ honeypotValue = <<>>
  /\ showToast = FALSE
  /\ errors = NoErrors
  /\ turnstileToken = None
  /\ scriptLoaded \in scripts
  /\ LET w == effectBody(turnstileSiteKey,
                         ContainerOf(TRUE, turnstileSiteKey,
                                     IsSuccessOf(IsControlledOf(cfg.onSubmit,
                                                                controlledIsSuccess),
                                                 controlledIsSuccess, FALSE)),
                         scriptLoaded, NoWidgetState)
     IN /\ turnstileWidgetIdRef = w.handle
        /\ liveWidgets = w.live
        /\ nextWidgetId = w.next
        /\ checkInterval = w.interval
        /\ timeout = w.timeout
        /\ hasCleanup = w.cleanup
  /\ detached = {}
  /\ inFlight = 0
  /\ toastExitTimer = FALSE /\ toastExiting = FALSE /\ toastCloseTimers = 0
  /\ last = Step("mount")

Init == InitWith(Configs, SiteKeys \cup {None}, BOOLEAN)

(* ------------------------------------------------------------------ *)
(* Field edits (onChange handlers, 470-475, 489-494, 508-513, 539)    *)
(* ------------------------------------------------------------------ *)
\* (mutant) an edit empties the whole error map
ClearErrorAll(field) == NoErrors

ClearError(field) ==
  IF errors[field] # None THEN [errors EXCEPT ![field] = None] ELSE errors

SetEMAIL(values) ==
  \E v \in values :
    /\ formShown /\ v # EMAIL
    /\ EMAIL' = v
    /\ errors' = ClearError("EMAIL")
    /\ last' = Step("edit")
    /\ UNCHANGED <<propVars, mounted, listeners, FNAME, LNAME, honeypotValue, statusVars,
                   turnstileToken, widgetVars, scriptLoaded>>
    /\ Commit(TRUE)

SetFNAME(values) ==
  \E v \in values :
    /\ formShown /\ v # FNAME
    /\ FNAME' = v
    /\ errors' = ClearError("FNAME")
    /\ last' = Step("edit")
    /\ UNCHANGED <<propVars, mounted, listeners, EMAIL, LNAME, honeypotValue, statusVars,
                   turnstileToken, widgetVars, scriptLoaded>>
    /\ Commit(TRUE)

SetLNAME(values) ==
  \E v \in values :
    /\ formShown /\ v # LNAME
    /\ LNAME' = v
    /\ errors' = ClearError("LNAME")
    /\ last' = Step("edit")
    /\ UNCHANGED <<propVars, mounted, listeners, EMAIL, FNAME, honeypotValue, statusVars,
                   turnstileToken, widgetVars, scriptLoaded>>
    /\ Commit(TRUE)

SetHoneypotValue(values) ==
  \E v \in values :
    /\ formShown /\ Truthy(cfg.honeypotFieldName) /\ v # honeypotValue
    /\ honeypotValue' = v
    /\ last' = Step("edit")
    /\ UNCHANGED <<propVars, mounted, listeners, EMAIL, FNAME, LNAME, errors, statusVars,
                   turnstileToken, widgetVars, scriptLoaded>>
    /\ Commit(TRUE)

(* ------------------------------------------------------------------ *)
(* handleSubmit up to its await (316-366, 371-373)                    *)
(* ------------------------------------------------------------------ *)
\* (mutant) the internal submission is started in controlled mode too
StartsInternallyAlways(ok, ctl) == ok

\* the else branch of if (isControlled) is taken
StartsInternally(ok, ctl) == ok /\ ~ctl

handleSubmit ==
  LET v == validateForm(FNAME, LNAME, EMAIL, honeypotValue, cfg.honeypotFieldName,
                        turnstileSiteKey, turnstileToken, cfg.turnstileManaged,
                        errors)
      internal == StartsInternally(v.ok, isControlled)
  IN /\ formShown
     /\ internal => inFlight < MaxInFlight
     /\ errors' = v.errors
     /\ internalIsSubmitting' = IF internal THEN TRUE ELSE internalIsSubmitting
     /\ inFlight' = IF internal THEN inFlight + 1 ELSE inFlight
     /\ last' = [Step("submit") EXCEPT
                   !.validated = ~v.silent,
                   !.accepted = v.ok,
                   !.onSubmit = v.ok /\ isControlled,
                   !.started = IF ~internal THEN "none"
                               ELSE IF Truthy(cfg.actionUrl) THEN "fetch"
                               ELSE "delay",
                   !.payload =
                     IF v.ok /\ isControlled
                     THEN formData(EMAIL, FNAME, LNAME, turnstileToken,
                                   cfg.honeypotFieldName, honeypotValue)
                     ELSE IF internal /\ Truthy(cfg.actionUrl)
                     THEN submitData(EMAIL, FNAME, LNAME, cfg.tags, turnstileToken,
                                     cfg.honeypotFieldName, honeypotValue)
                     ELSE NoPayload]
     /\ UNCHANGED <<propVars, mounted, listeners, FNAME, LNAME, EMAIL, honeypotValue,
                    internalIsSuccess, showToast, turnstileToken, widgetVars,
                    scriptLoaded>>
     /\ Commit(~v.silent)

\* The user submits: a click on the submit button, or Enter in a field, which
\* a browser turns into a submit event only while the button is enabled.
ClickSubmit == ~submitDisabled /\ handleSubmit

\* A submit event dispatched on the form whatever the button's state (a
\* script calling requestSubmit(), a bot driving the DOM).
SubmitEvent == handleSubmit

(* ------------------------------------------------------------------ *)
(* handleSubmit after its await (368-384). State setters of a         *)
(* component that has unmounted are ignored by React.                 *)
(* ------------------------------------------------------------------ *)
\* (mutant) the try block completes without recording the success
SucceedUnrecorded(op) ==
  /\ inFlight > 0
  /\ inFlight' = inFlight - 1
  /\ internalIsSubmitting' = IF mounted THEN FALSE ELSE internalIsSubmitting
  /\ last' = [Step(op) EXCEPT !.accepted = TRUE]
  /\ UNCHANGED <<propVars, mounted, listeners, formVars, internalIsSuccess,
                 showToast, turnstileToken, widgetVars, scriptLoaded>>
  /\ Commit(mounted)

\* try block completed: response.ok, or the 500ms delay elapsed
Succeed(op) ==
  /\ inFlight > 0
  /\ inFlight' = inFlight - 1
  /\ internalIsSuccess' = IF mounted THEN TRUE ELSE internalIsSuccess
  /\ showToast' = IF mounted THEN TRUE ELSE showToast
  /\ internalIsSubmitting' = IF mounted THEN FALSE ELSE internalIsSubmitting
  /\ last' = [Step(op) EXCEPT !.accepted = TRUE]
  /\ UNCHANGED <<propVars, mounted, listeners, formVars, turnstileToken, widgetVars,
                 scriptLoaded>>
  /\ Commit(mounted)

FetchSucceeds == Truthy(cfg.actionUrl) /\ Succeed("succeeded")

DelayElapses == ~Truthy(cfg.actionUrl) /\ Succeed("succeeded")

\* catch block: the response is not ok, or fetch rejected
FetchFails ==
  LET target == resetTarget(turnstileWidgetIdRef, scriptLoaded)
  IN /\ Truthy(cfg.actionUrl)
     /\ inFlight > 0
     /\ inFlight' = inFlight - 1
     /\ turnstileToken' = IF target # NoWidget /\ mounted THEN None
                          ELSE turnstileToken
     /\ internalIsSubmitting' = IF mounted THEN FALSE ELSE internalIsSubmitting
     /\ last' = [Step("failed") EXCEPT !.reset = target]
     /\ UNCHANGED <<propVars, mounted, listeners, formVars, internalIsSuccess, showToast,
                    widgetVars, scriptLoaded>>
     /\ Commit(mounted)

(* ------------------------------------------------------------------ *)
(* handleDone (388-404): the Done button of the success view          *)
(* ------------------------------------------------------------------ *)
\* (mutant) handleDone forgets to clear
AfterDoneKept(go, value, cleared) == value

\* a value handleDone sets inside its guard
AfterDone(go, value, cleared) == IF go THEN cleared ELSE value

HandleDone ==
  LET go == ~isSubmitting
      target == IF go THEN resetTarget(turnstileWidgetIdRef, scriptLoaded)
                ELSE NoWidget
  IN /\ mounted /\ isSuccess
     /\ FNAME' = AfterDone(go, FNAME, <<>>)
     /\ LNAME' = AfterDone(go, LNAME, <<>>)
     /\ EMAIL' = AfterDone(go, EMAIL, <<>>)
     /\ honeypotValue' = AfterDone(go, honeypotValue, <<>>)
     /\ errors' = AfterDone(go, errors, NoErrors)
     /\ turnstileToken' = IF target # NoWidget THEN None ELSE turnstileToken
     /\ internalIsSuccess' = IF go /\ ~isControlled THEN FALSE ELSE internalIsSuccess
     /\ last' = [Step("done") EXCEPT !.accepted = go, !.reset = target]
     /\ UNCHANGED <<propVars, mounted, listeners, internalIsSubmitting, showToast, inFlight,
                    widgetVars, scriptLoaded>>
     /\ Commit(go)

(* ------------------------------------------------------------------ *)
(* Callbacks of a rendered widget (163-178)                           *)
(* ------------------------------------------------------------------ *)
HandleTurnstileSuccess(tokens) ==
  \E w \in liveWidgets \ detached : \E token \in tokens :
    /\ mounted
    /\ turnstileToken' = token
    /\ errors' = [errors EXCEPT !.turnstile = None]
    /\ last' = [Step("verified") EXCEPT !.token = token]
    /\ UNCHANGED <<propVars, mounted, listeners, FNAME, LNAME, EMAIL, honeypotValue,
                   statusVars, widgetVars, scriptLoaded>>
    /\ Commit(TRUE)

HandleTurnstileError ==
  \E w \in liveWidgets :
    /\ mounted
    /\ turnstileToken' = None
    /\ errors' = [errors EXCEPT !.turnstile = ErrVerifyFailed]
    /\ last' = Step("verifyError")
    /\ UNCHANGED <<propVars, mounted, listeners, FNAME, LNAME, EMAIL, honeypotValue,
                   statusVars, widgetVars, scriptLoaded>>
    /\ Commit(TRUE)

\* (mutant) the expiry callback leaves the token in place
HandleTurnstileExpiredKeepsToken ==
  \E w \in liveWidgets :
    /\ mounted
    /\ last' = Step("expired")
    /\ UNCHANGED <<propVars, mounted, listeners, formVars, statusVars, turnstileToken,
                   widgetVars, scriptLoaded>>
    /\ Commit(FALSE)

HandleTurnstileExpired ==
  \E w \in liveWidgets :
    /\ mounted
    /\ turnstileToken' = None
    /\ last' = Step("expired")
    /\ UNCHANGED <<propVars, mounted, listeners, formVars, statusVars, widgetVars,
                   scriptLoaded>>
    /\ Commit(turnstileToken # None)

(* ------------------------------------------------------------------ *)
(* Widget acquisition and teardown (181-251)                          *)
(* ------------------------------------------------------------------ *)
\* the host page's script defines window.turnstile
ScriptLoads ==
  /\ ~scriptLoaded
  /\ scriptLoaded' = TRUE
  /\ last' = Step("script")
  /\ UNCHANGED <<propVars, mounted, listeners, formVars, statusVars, turnstileToken,
                 widgetVars>>
  /\ Commit(FALSE)

\* a tick of the 100ms interval that finds window.turnstile
IntervalTick ==
  LET w == intervalCallback(turnstileContainerRef, scriptLoaded, WidgetState)
  IN /\ checkInterval /\ scriptLoaded
     /\ w.next <= MaxWidgets + 1
     /\ SetWidgetState(w)
     /\ last' = Step("poll")
     /\ UNCHANGED <<propVars, mounted, listeners, formVars, statusVars, turnstileToken,
                    scriptLoaded>>
     /\ Commit(FALSE)

\* the 10s timer
CeilingTimeout ==
  /\ timeout
  /\ timeout' = FALSE
  /\ checkInterval' = FALSE
  /\ last' = Step("ceiling")
  /\ UNCHANGED <<propVars, mounted, listeners, formVars, statusVars, turnstileToken,
                 turnstileWidgetIdRef, hasCleanup, liveWidgets, nextWidgetId,
                 scriptLoaded>>
  /\ Commit(FALSE)

\* the host passes another site key (or none): the effect is re-run
ChangeSiteKey ==
  \E key \in SiteKeys \cup {None} :
    LET w == effectRerun(key, ContainerOf(mounted, key, isSuccess), scriptLoaded,
                         WidgetState)
    IN /\ mounted /\ key # turnstileSiteKey
       /\ w.next <= MaxWidgets + 1
       /\ turnstileSiteKey' = key
       /\ SetWidgetState(w)
       /\ last' = Step("config")
       /\ UNCHANGED <<cfg, controlledIsSuccess, controlledIsSubmitting, mounted, listeners,
                      formVars, statusVars, turnstileToken, scriptLoaded>>
       /\ Commit(TRUE)

\* the host passes another theme, size or action: the effect is re-run
ChangeThemeSizeAction ==
  LET w == effectRerun(turnstileSiteKey, turnstileContainerRef, scriptLoaded,
                       WidgetState)
  IN /\ mounted
     /\ w.next <= MaxWidgets + 1
     /\ SetWidgetState(w)
     /\ last' = Step("config")
     /\ UNCHANGED <<propVars, mounted, listeners, formVars, statusVars, turnstileToken,
                    scriptLoaded>>
     /\ Commit(TRUE)

\* the host removes the component
Unmount ==
  /\ mounted
  /\ mounted' = FALSE
  /\ listeners' = clickOutsideCleanup(cfg.dismissible, listeners)
  /\ SetWidgetState(effectCleanup(scriptLoaded, WidgetState))
  /\ last' = Step("unmount")
  /\ UNCHANGED <<propVars, formVars, statusVars, turnstileToken, scriptLoaded>>
  /\ Commit(TRUE)

(* ------------------------------------------------------------------ *)
(* The host's flags                                                   *)
(* ------------------------------------------------------------------ *)
HostSetIsSuccess ==
  \E flag \in Flags :
    /\ mounted /\ cfg.isSuccessGiven /\ flag # controlledIsSuccess
    /\ controlledIsSuccess' = flag
    /\ last' = Step("host")
    /\ UNCHANGED <<cfg, turnstileSiteKey, controlledIsSubmitting, mounted, listeners,
                   formVars, statusVars, turnstileToken, widgetVars, scriptLoaded>>
    /\ Commit(TRUE)

HostSetIsSubmitting ==
  \E flag \in Flags \cup {"undefined"} :
    /\ mounted /\ isControlled /\ flag # controlledIsSubmitting
    /\ controlledIsSubmitting' = flag
    /\ last' = Step("host")
    /\ UNCHANGED <<cfg, turnstileSiteKey, controlledIsSuccess, mounted, listeners,
                   formVars, statusVars, turnstileToken, widgetVars, scriptLoaded>>
    /\ Commit(TRUE)

(* ------------------------------------------------------------------ *)
(* Toast timers (part_004 19-38)                                      *)
(* ------------------------------------------------------------------ *)
\* exitTimer: after `duration`, start the exit transition and the 300ms timer
ToastExitTimer ==
  /\ toastExitTimer
  /\ toastCloseTimers < MaxCloseTimers
  /\ toastExitTimer' = FALSE
  /\ toastExiting' = TRUE
  /\ toastCloseTimers' = toastCloseTimers + 1
  /\ last' = Step("toastExit")
  /\ UNCHANGED <<propVars, mounted, listeners, formVars, statusVars, turnstileToken,
                 widgetVars, detached, scriptLoaded>>

\* the 300ms timer: onClose(), that is setShowToast(false)
ToastCloseTimer ==
  /\ toastCloseTimers > 0
  /\ toastCloseTimers' = toastCloseTimers - 1
  /\ showToast' = IF mounted THEN FALSE ELSE showToast
  /\ toastExitTimer' = IF mounted THEN FALSE ELSE toastExitTimer
  /\ toastExiting' = IF mounted THEN FALSE ELSE toastExiting
  /\ last' = Step("toastClose")
  /\ UNCHANGED <<propVars, mounted, listeners, formVars, internalIsSubmitting,
                 internalIsSuccess, inFlight, turnstileToken, widgetVars,
                 detached, scriptLoaded>>

(* ------------------------------------------------------------------ *)
(* Dismissal (254-276, 406-408, 426-446)                              *)
(* ------------------------------------------------------------------ *)
\* everything but the listeners and the observation
allButListeners ==
  <<propVars, mounted, formVars, statusVars, turnstileToken, widgetVars,
    detached, scriptLoaded, toastVars>>

\* a mousedown on the document outside the card: every registered
\* handleClickOutside runs (cardRef.current is set while mounted)
MousedownOutside ==
  /\ last' = [Step("mousedown") EXCEPT
                !.onClose = onCloseCalls(cfg.onClose, listeners)]
  /\ UNCHANGED <<allButListeners, listeners>>

\* a keydown of Escape on the document: every registered handleEscapeKey runs
EscapeKey ==
  /\ last' = [Step("escape") EXCEPT
                !.onClose = onCloseCalls(cfg.onClose, listeners)]
  /\ UNCHANGED <<allButListeners, listeners>>

\* a click on the close button, rendered when dismissible: handleClose
ClickCloseButton ==
  /\ mounted /\ cfg.dismissible
  /\ last' = [Step("close") EXCEPT !.onClose = onCloseCalls(cfg.onClose, 1)]
  /\ UNCHANGED <<allButListeners, listeners>>

\* the host re-renders with another onClose function: the click-outside
\* effect is re-run (cleanup, then body)
HostPassesOnClose ==
  /\ mounted /\ cfg.onClose
  /\ listeners' = clickOutsideBody(cfg.dismissible,
                                   clickOutsideCleanup(cfg.dismissible, listeners))
  /\ last' = Step("host")
  /\ UNCHANGED <<propVars, mounted, formVars, statusVars, turnstileToken,
                 widgetVars, scriptLoaded>>
  /\ Commit(TRUE)

(* ------------------------------------------------------------------ *)
(* Specification                                                      *)
(* ------------------------------------------------------------------ *)
Next ==
  \/ SetEMAIL(EmailTyped)
  \/ SetFNAME(NameTyped)
  \/ SetLNAME(NameTyped)
  \/ ClickSubmit
  \/ FetchSucceeds
  \/ DelayElapses
  \/ FetchFails
  \/ HandleDone
  \/ HandleTurnstileSuccess(Tokens)
  \/ HandleTurnstileError
  \/ HandleTurnstileExpired
  \/ ScriptLoads
  \/ IntervalTick
  \/ CeilingTimeout
  \/ ChangeSiteKey
  \/ ChangeThemeSizeAction
  \/ Unmount
  \/ HostSetIsSuccess
  \/ HostSetIsSubmitting
  \/ ToastExitTimer
  \/ ToastCloseTimer

Spec == Init /\ [][Next]_vars

\* The form on its own: every field value, the widget rendered at mount, the
\* handlers that run before a response arrives, submit events dispatched
\* whatever the button's state; controlled (callback and flag) or uncontrolled
\* (neither).
InitForm ==
  /\ InitWith(FormConfigs, SiteKeys \cup {None}, {TRUE})
  /\ cfg.turnstileManaged => Truthy(turnstileSiteKey)
  /\ cfg.onSubmit = cfg.isSuccessGiven

NextForm ==
  \/ SetEMAIL(EmailValues)
  \/ SetFNAME(NameValues)
  \/ SetLNAME(NameValues)
  \/ SetHoneypotValue(HoneypotValues)
  \/ SubmitEvent
  \/ HandleDone
  \/ HandleTurnstileSuccess(FormTokens)
  \/ HandleTurnstileError
  \/ HandleTurnstileExpired
  \/ HostSetIsSuccess

SpecForm == InitForm /\ [][NextForm]_vars

\* The e-mail rule on its own: the plain component, any e-mail string typed,
\* submit events.
InitEmail == InitWith(PlainConfigs, {None}, {TRUE})

NextEmail ==
  \/ SetEMAIL(EmailInputs)
  \/ SubmitEvent

SpecEmail == InitEmail /\ [][NextEmail]_vars

\* The plain component left mounted, with its timers: the 500ms delay of
\* handleSubmit and the two timers of the Toast fire once they are pending.
InitLive == InitWith(PlainConfigs, {None}, BOOLEAN)

NextLive ==
  \/ SetEMAIL(EmailTyped)
  \/ SetFNAME(NameTyped)
  \/ SetLNAME(NameTyped)
  \/ ClickSubmit
  \/ DelayElapses
  \/ HandleDone
  \/ ToastExitTimer
  \/ ToastCloseTimer
  \/ ScriptLoads

LiveSpec ==
  /\ InitLive /\ [][NextLive]_vars
  /\ WF_vars(DelayElapses) /\ WF_vars(ToastExitTimer) /\ WF_vars(ToastCloseTimer)

\* Dismissal: the uncontrolled component without a URL, dismissible or not.
InitDismiss == InitWith(DismissConfigs, SiteKeys \cup {None}, {TRUE})

NextDismiss ==
  \/ SetEMAIL(EmailTyped)
  \/ SetFNAME(NameTyped)
  \/ SetLNAME(NameTyped)
  \/ ClickSubmit
  \/ DelayElapses
  \/ HandleDone
  \/ HandleTurnstileSuccess(FormTokens)
  \/ MousedownOutside
  \/ EscapeKey
  \/ ClickCloseButton
  \/ HostPassesOnClose
  \/ Unmount

SpecDismiss == InitDismiss /\ [][NextDismiss]_vars

\* Payloads: valid values typed, any honeypot value, tokens delivered and
\* expired, submit events; controlled or uncontrolled.
InitPayload ==
  /\ InitWith(PayloadConfigs, SiteKeys \cup {None}, {TRUE})
  /\ cfg.turnstileManaged => Truthy(turnstileSiteKey)
  /\ cfg.onSubmit = cfg.isSuccessGiven

NextPayload ==
  \/ SetEMAIL(EmailTyped)
  \/ SetFNAME(NameTyped)
  \/ SetLNAME(NameTyped)
  \/ SetHoneypotValue(HoneypotValues)
  \/ SubmitEvent
  \/ HandleTurnstileSuccess(Tokens)
  \/ HandleTurnstileExpired

SpecPayload == InitPayload /\ [][NextPayload]_vars

\* Tokens and payloads: the configurations of the payload specification with
\* the widget's error callback, the responses and Done added, so that tokens
\* are delivered, expired, refused and reset between submit events.
NextToken ==
  \/ NextPayload
  \/ HandleTurnstileError
  \/ FetchSucceeds
  \/ DelayElapses
  \/ FetchFails
  \/ HandleDone

SpecToken == InitPayload /\ [][NextToken]_vars

(* ================================================================== *)
(* Properties                                                         *)
(* ================================================================== *)

\* C1: at most one widget rendered by the component is live (rendered and not
\* removed) in every reachable state, and while a handle is held neither the
\* effect body nor initTurnstile renders anything, whatever the script and
\* the container are.
C1_AtMostOneLiveWidget ==
  /\ Cardinality(liveWidgets) <= 1
  /\ turnstileWidgetIdRef # NoWidget =>
       \A script \in BOOLEAN : \A container \in BOOLEAN :
         \A key \in SiteKeys \cup {None} :
           /\ effectBody(key, container, script, WidgetState).live = liveWidgets
           /\ initTurnstile(script, container, WidgetState).live = liveWidgets
           /\ intervalCallback(container, script, WidgetState).live = liveWidgets

\* a second widget is live and held after the first was removed
C1_Witness ==
  /\ mounted /\ turnstileWidgetIdRef = 2 /\ liveWidgets = {2}
  /\ last.op = "config"

\* the submission status the component holds, and the one it displays
StatusUnchanged ==
  /\ UNCHANGED <<internalIsSubmitting, internalIsSuccess, inFlight, showToast>>
  /\ UNCHANGED <<controlledIsSuccess, controlledIsSubmitting>>
  /\ isSubmitting' = isSubmitting /\ isSuccess' = isSuccess

\* C2: a submit with first name, last name or email empty after trimming
\* invokes no host callback, starts no request (and no delay timer) and leaves
\* the submission status as it was, in controlled and in uncontrolled mode.
C2_EmptyRequiredFieldBlocksSubmit ==
  [][(/\ last'.op = "submit"
      /\ (Trim(FNAME) = <<>> \/ Trim(LNAME) = <<>> \/ Trim(EMAIL) = <<>>))
     => (~last'.onSubmit /\ last'.started = "none" /\ StatusUnchanged)]_vars

\* a submit was refused for a first name of one space, all else being valid
C2_Witness ==
  /\ last.op = "submit" /\ last.validated /\ ~last.accepted
  /\ FNAME = <<" ">> /\ LNAME = <<"a">> /\ EMAIL = ValidEmail
  /\ errors.FNAME = ErrFirstRequired /\ errors.EMAIL = None
  /\ inFlight = 0

\* a submit that did nothing at all
SubmitIsSilent ==
  /\ ~last'.onSubmit /\ last'.started = "none"
  /\ errors' = errors
  /\ StatusUnchanged

\* C3 as stated: with a honeypot field configured, a submit with any honeypot
\* value other than the empty string does nothing.
C3_Original ==
  [][(/\ last'.op = "submit"
      /\ Truthy(cfg.honeypotFieldName) /\ honeypotValue # <<>>)
     => SubmitIsSilent]_vars

\* C3 (amended): with a honeypot field configured, a submit with a honeypot
\* value that is not empty after trimming invokes no callback, starts no
\* request, makes no status transition and leaves the error map as it was,
\* whatever the other fields and the token hold.
C3_HoneypotSilentAbort ==
  [][(/\ last'.op = "submit"
      /\ Truthy(cfg.honeypotFieldName) /\ Trim(honeypotValue) # <<>>)
     => SubmitIsSilent]_vars

\* a submit with a filled honeypot and otherwise valid input was dropped
C3_Witness ==
  /\ last.op = "submit" /\ ~last.validated /\ ~last.accepted
  /\ Truthy(cfg.honeypotFieldName) /\ honeypotValue = <<"x">>
  /\ FNAME = <<"a">> /\ LNAME = <<"a">> /\ EMAIL = ValidEmail
  /\ TurnstileError(turnstileSiteKey, turnstileToken, cfg.turnstileManaged) = None
  /\ errors = NoErrors /\ inFlight = 0

\* C4: the mode is controlled exactly when the callback and the flag are both
\* supplied; otherwise the displayed status is the internal one, an accepted
\* submit starts the internal submission and the callback is never invoked.
C4_ControlledNeedsBoth ==
  /\ isControlled <=> (cfg.onSubmit /\ cfg.isSuccessGiven)
  /\ (cfg.onSubmit /\ cfg.isSuccessGiven) =>
       (last.op = "submit" /\ last.accepted =>
          last.onSubmit /\ last.started = "none")
  /\ ~(cfg.onSubmit /\ cfg.isSuccessGiven) =>
       /\ isSubmitting = internalIsSubmitting
       /\ isSuccess = internalIsSuccess
       /\ last.op = "submit" => ~last.onSubmit
       /\ last.op = "submit" /\ last.accepted =>
            last.started # "none" /\ internalIsSubmitting

\* a submit was handled internally although a callback is supplied
C4_Witness ==
  /\ cfg.onSubmit /\ ~cfg.isSuccessGiven
  /\ last.op = "submit" /\ last.accepted /\ ~last.onSubmit
  /\ internalIsSubmitting /\ inFlight = 1

\* what done leaves behind when it acts
DoneCleared ==
  /\ FNAME' = <<>> /\ LNAME' = <<>> /\ EMAIL' = <<>> /\ honeypotValue' = <<>>
  /\ errors' = NoErrors
  /\ ~isControlled => ~internalIsSuccess' /\ ~internalIsSubmitting'
  /\ isControlled =>
       UNCHANGED <<controlledIsSuccess, controlledIsSubmitting,
                   internalIsSubmitting, internalIsSuccess>>

\* C5 as stated: every invocation of done clears the fields and the errors,
\* returns an uncontrolled status to idle and changes no flag when controlled.
C5_Original == [][last'.op = "done" => DoneCleared]_vars

\* C5 (amended): an invocation of done while the displayed submitting flag is
\* false clears the fields and the errors, returns an uncontrolled status to
\* idle and changes no flag when controlled; while the flag is true it changes
\* nothing.
C5_DoneClearsUnlessSubmitting ==
  [][last'.op = "done" =>
       IF isSubmitting
       THEN UNCHANGED <<propVars, mounted, listeners, formVars, statusVars, turnstileToken,
                        widgetVars, detached, scriptLoaded, toastVars>>
       ELSE DoneCleared]_vars

\* done has cleared the form of an uncontrolled component and re-armed its widget
C5_Witness ==
  /\ last.op = "done" /\ last.accepted /\ ~isControlled
  /\ last.reset # NoWidget
  /\ FNAME = <<>> /\ ~internalIsSuccess /\ formShown

\* C6: after a failed uncontrolled submission with a widget configured (the
\* component still mounted) no token is held, reset() was called on the held
\* handle, submitting is cleared, the status is not succeeded, and without
\* managed mode a further validation pass is refused for want of a token.
C6_FailedSubmissionRearms ==
  (last.op = "failed" /\ mounted /\ Truthy(turnstileSiteKey)) =>
    /\ turnstileToken = None
    /\ turnstileWidgetIdRef # NoWidget => last.reset = turnstileWidgetIdRef
    /\ ~internalIsSubmitting /\ ~internalIsSuccess
    /\ ~cfg.turnstileManaged =>
         TurnstileError(turnstileSiteKey, turnstileToken, FALSE) # None

\* C7: the error map set by a validation pass that reached the field rules
\* holds a verification error exactly when a site key is configured, managed
\* mode is off and no token is held; in managed mode it never holds one.
C7_VerificationErrorIffUnverified ==
  (last.op = "submit" /\ last.validated) =>
    /\ errors.turnstile # None <=>
         (Truthy(turnstileSiteKey) /\ ~cfg.turnstileManaged
          /\ turnstileToken = None)
    /\ cfg.turnstileManaged => errors.turnstile = None

\* a managed widget without a token: the pass went through
C7_Witness ==
  /\ last.op = "submit" /\ last.validated /\ last.accepted
  /\ Truthy(turnstileSiteKey) /\ cfg.turnstileManaged /\ turnstileToken = None
  /\ errors.turnstile = None

\* the part of s before position a, and the part after it
LocalPart(s, a) == SubSeq(s, 1, a - 1)
DomainPart(s, a) == SubSeq(s, a + 1, Len(s))
NoSpaceNoAt(t) == \A k \in 1..Len(t) : t[k] # " " /\ t[k] # "@"

\* local@domain.tld as stated: a non-empty local part and a domain, both
\* without whitespace or '@', the domain holding a '.' followed by at least
\* one character
ShapeAsStated(s) ==
  \E a \in 1..Len(s) :
    /\ s[a] = "@"
    /\ LocalPart(s, a) # <<>> /\ NoSpaceNoAt(LocalPart(s, a))
    /\ NoSpaceNoAt(DomainPart(s, a))
    /\ \E p \in 1..Len(DomainPart(s, a)) :
         DomainPart(s, a)[p] = "." /\ p < Len(DomainPart(s, a))

\* the same, the '.' also preceded by at least one character of the domain
ShapeWithLabel(s) ==
  \E a \in 1..Len(s) :
    /\ s[a] = "@"
    /\ LocalPart(s, a) # <<>> /\ NoSpaceNoAt(LocalPart(s, a))
    /\ NoSpaceNoAt(DomainPart(s, a))
    /\ \E p \in 1..Len(DomainPart(s, a)) :
         DomainPart(s, a)[p] = "." /\ 1 < p /\ p < Len(DomainPart(s, a))

\* the strings the documentation names
NamedEmailsJudged ==
  /\ EMAIL \in {NotAnEmail, AtB, TrailingSpace} => errors.EMAIL # None
  /\ EMAIL = UserExample => errors.EMAIL = None

\* C8 as stated: after a validation pass the e-mail error is set exactly when
\* the e-mail is empty after trimming or, untrimmed, is not local@domain.tld
\* with a domain that holds a '.' followed by at least one character.
C8_Original ==
  (last.op = "submit" /\ last.validated) =>
    /\ errors.EMAIL # None <=> (Trim(EMAIL) = <<>> \/ ~ShapeAsStated(EMAIL))
    /\ NamedEmailsJudged

\* C8 (amended): after a validation pass the e-mail error is set exactly when
\* the e-mail is empty after trimming or, untrimmed, is not local@domain.tld
\* with a non-empty local part and a domain, both without whitespace or '@',
\* the domain holding a '.' that has at least one character before it and at
\* least one after it; "not-an-email", "a@b" and "a@b.c " get an error and
\* "user@example.com" gets none.
C8_EmailErrorIffMalformed ==
  (last.op = "submit" /\ last.validated) =>
    /\ errors.EMAIL # None <=> (Trim(EMAIL) = <<>> \/ ~ShapeWithLabel(EMAIL))
    /\ NamedEmailsJudged

\* a pass has refused "a@b.c " for its trailing space
C8_Witness ==
  /\ last.op = "submit" /\ last.validated
  /\ EMAIL = TrailingSpace /\ errors.EMAIL = ErrEmailInvalid

\* C9: in uncontrolled mode with no URL and no widget, an accepted submit is
\* eventually followed by the succeeded status with the notification shown,
\* and a shown notification is eventually removed, by its timers alone.
C9_SubmitSucceedsAndToastDismisses ==
  /\ (last.op = "submit" /\ last.accepted /\ last.started = "delay")
       ~> (internalIsSuccess /\ showToast /\ ~internalIsSubmitting)
  /\ showToast ~> (~showToast /\ last.op = "toastClose")

\* the notification has dismissed itself while the success view is still shown
C9_Witness ==
  /\ last.op = "toastClose" /\ ~showToast
  /\ internalIsSuccess /\ mounted /\ inFlight = 0
  /\ ~isControlled /\ ~Truthy(cfg.actionUrl) /\ ~Truthy(turnstileSiteKey)

\* the displayed status is the host's flags
DisplayedIsHostFlags ==
  /\ isSubmitting = (controlledIsSubmitting = "true")
  /\ isSuccess = (controlledIsSuccess = "true")
  /\ mounted => (formShown <=> controlledIsSuccess # "true")

\* C10: in controlled mode the displayed status is in every state the host's
\* flags (submitting false when the flag is absent), the success view is
\* rendered exactly while isSuccess is true, and no edit, submit, done or
\* widget event changes the flags or the displayed status.
C10_ControlledStatusIsProjection ==
  /\ [](isControlled => DisplayedIsHostFlags)
  /\ [][(isControlled
          /\ last'.op \in {"edit", "submit", "done", "verified", "verifyError",
                           "expired"})
         => /\ UNCHANGED <<controlledIsSuccess, controlledIsSubmitting>>
            /\ isSubmitting' = isSubmitting /\ isSuccess' = isSuccess]_vars

\* the host has set isSuccess to true over a filled form: the success view shows
C10_Witness ==
  /\ isControlled /\ mounted /\ last.op = "host"
  /\ controlledIsSuccess = "true" /\ FNAME # <<>>
  /\ isSuccess /\ ~formShown

\* C11: with dismissible set, each mousedown outside the card and each Escape
\* keypress on the mounted component calls onClose exactly once when the
\* callback is supplied (and nothing when it is not), and changes no field,
\* error, token, status, widget handle or listener: the component stays
\* mounted and renders the same view.
C11_DismissCallsOnCloseOnce ==
  [][(last'.op \in {"mousedown", "escape"} /\ mounted /\ cfg.dismissible)
     => /\ last'.onClose = (IF cfg.onClose THEN 1 ELSE 0)
        /\ UNCHANGED <<allButListeners, listeners>>
        /\ mounted' /\ (formShown' <=> formShown)]_vars

\* an Escape keypress over the success view of a dismissible component called
\* onClose once and left the view and the typed values in place
C11_Witness ==
  /\ last.op = "escape" /\ last.onClose = 1
  /\ cfg.dismissible /\ cfg.onClose /\ mounted
  /\ internalIsSuccess /\ FNAME # <<>> /\ listeners = 1

\* the last step handed a payload to the host callback or to fetch
Dispatched == last.op = "submit" /\ (last.onSubmit \/ last.started = "fetch")

\* C12: every payload dispatched by submit holds EMAIL, FNAME and LNAME equal
\* to the field values, for every honeypot field name; it holds
\* cf-turnstile-response exactly when a token is held, the honeypot key
\* exactly when a honeypot field name is configured, and tags only in
\* uncontrolled mode with a URL and a tag configured.
C12_PayloadCarriesFields ==
  Dispatched =>
    LET p == last.payload
    IN /\ {"EMAIL", "FNAME", "LNAME"} \subseteq DOMAIN p
       /\ p["EMAIL"] = EMAIL /\ p["FNAME"] = FNAME /\ p["LNAME"] = LNAME
       /\ TokenKey \in DOMAIN p <=> turnstileToken # None
       /\ cfg.honeypotFieldName \in DOMAIN p <=> Truthy(cfg.honeypotFieldName)
       /\ "tags" \in DOMAIN p =>
            ~isControlled /\ Truthy(cfg.actionUrl) /\ Truthy(cfg.tags)

\* an accepted uncontrolled submit with a URL starts exactly one POST
OnePostPerSubmit ==
  (last'.op = "submit" /\ last'.accepted /\ ~isControlled
   /\ Truthy(cfg.actionUrl))
    => /\ last'.started = "fetch" /\ inFlight' = inFlight + 1
       /\ last'.payload # NoPayload /\ ~last'.onSubmit

\* a 2xx response ends the submission succeeded
OkEndsSucceeded ==
  (last'.op = "succeeded" /\ Truthy(cfg.actionUrl) /\ mounted)
    => /\ inFlight' = inFlight - 1
       /\ internalIsSuccess' /\ showToast' /\ ~internalIsSubmitting'

\* C13 as stated: in uncontrolled mode with a URL, an accepted submit performs
\* exactly one POST, a 2xx response ends it succeeded, and a non-2xx response
\* or a rejected request ends with submitting cleared, the status not
\* succeeded and no success notification shown.
C13_Original ==
  [][/\ OnePostPerSubmit
     /\ OkEndsSucceeded
     /\ (last'.op = "failed" /\ mounted)
          => /\ inFlight' = inFlight - 1
             /\ ~internalIsSubmitting' /\ ~internalIsSuccess' /\ ~showToast']_vars

\* C13 (amended): in uncontrolled mode with a URL, an accepted submit performs
\* exactly one POST, a 2xx response ends it succeeded with the notification
\* shown, and a non-2xx response or a rejected request ends with submitting
\* cleared and the status not succeeded, and shows no notification: the
\* notification is left as it was, so one raised by an earlier success may
\* still be shown.
C13_PostSucceedsIffOk ==
  [][/\ OnePostPerSubmit
     /\ OkEndsSucceeded
     /\ (last'.op = "failed" /\ mounted)
          => /\ inFlight' = inFlight - 1
             /\ ~internalIsSubmitting' /\ ~internalIsSuccess'
             /\ showToast' = showToast]_vars

\* a request has failed: the form is shown again, idle, with no notification
C13_Witness ==
  /\ last.op = "failed" /\ mounted /\ ~isControlled /\ Truthy(cfg.actionUrl)
  /\ inFlight = 0 /\ ~internalIsSubmitting /\ ~internalIsSuccess /\ ~showToast
  /\ formShown /\ FNAME # <<>>

\* C14: in controlled mode a submit that passes validation and the honeypot
\* check calls onSubmit (once, in the controlled branch) with the payload
\* built from the fields, starts no request and no delay timer, shows no
\* notification and changes no internal status; the displayed status changes
\* only in steps of the host.
C14_ControlledSubmitDelegates ==
  [][/\ (last'.op = "submit" /\ last'.accepted /\ isControlled)
          => /\ last'.onSubmit
             /\ last'.payload = formData(EMAIL, FNAME, LNAME, turnstileToken,
                                         cfg.honeypotFieldName, honeypotValue)
             /\ last'.started = "none"
             /\ UNCHANGED <<internalIsSubmitting, internalIsSuccess, inFlight,
                            showToast, toastVars>>
     /\ (isControlled /\ (isSubmitting' # isSubmitting \/ isSuccess' # isSuccess))
          => last'.op = "host"]_vars

\* the host callback has received the fields and the token
C14_Witness ==
  /\ last.op = "submit" /\ last.accepted /\ isControlled /\ last.onSubmit
  /\ last.payload["EMAIL"] = ValidEmail /\ TokenKey \in DOMAIN last.payload
  /\ inFlight = 0 /\ ~internalIsSubmitting /\ ~showToast /\ formShown

\* the pass run on the current fields, token and configuration from an empty
\* error map
PassFromEmpty ==
  validateForm(FNAME, LNAME, EMAIL, honeypotValue, cfg.honeypotFieldName,
               turnstileSiteKey, turnstileToken, cfg.turnstileManaged, NoErrors)

\* a pass changes no field and no token
PassKeepsInputs == UNCHANGED <<FNAME, LNAME, EMAIL, honeypotValue, turnstileToken>>

\* C15 as stated: the error map and the result after a validation pass are
\* those of the pass run on the same fields, token and configuration from an
\* empty error map, whatever the map held before, and the pass changes no
\* field and no token.
C15_Original ==
  [][last'.op = "submit"
     => /\ errors' = PassFromEmpty.errors
        /\ last'.accepted = PassFromEmpty.ok
        /\ PassKeepsInputs]_vars

\* C15 (amended): the result of a validation pass is a function of the
\* fields, the token and the configuration only; so is the error map after a
\* pass that reaches the field rules, whatever the map held before; a pass
\* stopped by the honeypot fails and leaves the error map as it was; no pass
\* changes a field or the token.
C15_ValidationDeterministic ==
  [][last'.op = "submit"
     => /\ last'.accepted = PassFromEmpty.ok
        /\ IF HoneypotTripped(cfg.honeypotFieldName, honeypotValue)
           THEN errors' = errors /\ ~last'.accepted
           ELSE errors' = PassFromEmpty.errors
        /\ PassKeepsInputs]_vars

\* a pass over valid fields, a honeypot of one space and a managed widget
\* without a token reached the field rules and left the error map empty
C15_Witness ==
  /\ last.op = "submit" /\ last.validated /\ last.accepted
  /\ cfg.turnstileManaged /\ turnstileToken = None /\ errors = NoErrors
  /\ Truthy(cfg.honeypotFieldName) /\ honeypotValue = <<" ">>

\* the steps in which the widget API clears a verification: an error or
\* expiry callback, or reset() called on a widget
ClearingStep == last'.op \in {"verifyError", "expired"} \/ last'.reset # NoWidget

Rendered == liveWidgets' \ liveWidgets

\* C17: mounted with a site key, the form shown and no script, the component
\* polls; a poll that finds the script renders exactly one widget and stops
\* the polling; the ceiling stops the polling, sets no error and renders
\* nothing; the script appearing renders nothing by itself, and once the
\* polling has stopped only a re-run of the acquisition (a change of widget
\* configuration) starts it again or renders a widget.
C17_PollUntilCeiling ==
  /\ (last.op = "mount" /\ Truthy(turnstileSiteKey) /\ formShown
       /\ ~scriptLoaded) => (checkInterval /\ timeout /\ liveWidgets = {})
  /\ [][/\ last'.op = "poll"
             => /\ Cardinality(Rendered) = 1 /\ Cardinality(liveWidgets') = 1
                /\ turnstileWidgetIdRef' \in Rendered
                /\ ~checkInterval'
        /\ last'.op = "ceiling"
             => /\ ~checkInterval' /\ ~timeout'
                /\ errors' = errors /\ Rendered = {}
        /\ last'.op = "script" => Rendered = {}
        /\ Rendered # {} => last'.op \in {"poll", "config"}
        /\ (checkInterval' /\ ~checkInterval) => last'.op = "config"]_vars

\* C18: after an unmount and after a poll that has rendered the widget,
\* neither the polling interval nor the 10s ceiling timer is pending.
C18_TimersCancelled ==
  [][(last'.op = "unmount" \/ (last'.op = "poll" /\ Rendered # {}))
     => (~checkInterval' /\ ~timeout')]_vars

\* what the teardown of the acquisition leaves when run in the current state
TornDown == effectCleanup(scriptLoaded, WidgetState)

\* C19: in every state of the mounted component the teardown, which runs on
\* unmount and before every re-run of the acquisition, removes the held
\* widget, sets the handle to none and cancels the interval and the ceiling
\* timer; after unmount no widget is live, no handle is held and no timer is
\* pending; a change of widget configuration never renders a widget while an
\* older one is live.
C19_TeardownBeforeReacquire ==
  /\ [](mounted => /\ TornDown.live = {} /\ TornDown.handle = NoWidget
                   /\ ~TornDown.interval /\ ~TornDown.timeout)
  /\ [](~mounted => /\ liveWidgets = {} /\ turnstileWidgetIdRef = NoWidget
                    /\ ~checkInterval /\ ~timeout)
  /\ [][last'.op = "config"
        => /\ liveWidgets \cap liveWidgets' = {}
           /\ Cardinality(liveWidgets') <= 1
           /\ turnstileWidgetIdRef' # NoWidget
                => liveWidgets' = {turnstileWidgetIdRef'}]_vars

\* a change of configuration has replaced the first widget by a second one
C19_Witness ==
  /\ last.op = "config" /\ mounted
  /\ liveWidgets = {2} /\ turnstileWidgetIdRef = 2 /\ ~timeout /\ ~checkInterval

\* the steps that invoke resetTurnstile: done past its guard, and the catch
\* block of a failed submission
ResetInvoked == last'.op = "failed" \/ (last'.op = "done" /\ last'.accepted)

C21_CallbacksDriveVerification ==
  [][/\ last'.op = "verified"
          => /\ last'.token \in Tokens /\ turnstileToken' = last'.token
             /\ errors'.turnstile = None
     /\ last'.op \in {"verifyError", "expired"} => turnstileToken' = None
     /\ (turnstileToken = None /\ turnstileToken' # None)
          => last'.op = "verified"]_vars

\* an expiry callback has arrived after an error callback: no token is held
\* and the submit button is disabled
C21_Witness ==
  /\ last.op = "expired" /\ mounted /\ formShown
  /\ turnstileToken = None /\ errors.turnstile = ErrVerifyFailed
  /\ ~cfg.turnstileManaged /\ submitDisabled

\* a verification message is in the error map
VerificationMessageHeld == errors.turnstile # None

\* C22: in non-managed mode, after an error callback and after an expiry
\* callback the error map holds a verification message; the callback changes
\* no field value and no other field's error; and a held verification message
\* stays until the next success callback.
C22_VerificationFailureSurfaced ==
  [][~cfg.turnstileManaged
     => /\ last'.op \in {"verifyError", "expired"}
             => /\ VerificationMessageHeld'
                /\ UNCHANGED <<FNAME, LNAME, EMAIL, honeypotValue>>
                /\ \A k \in {"FNAME", "LNAME", "EMAIL"} : errors'[k] = errors[k]
        /\ (VerificationMessageHeld /\ ~VerificationMessageHeld')
             => last'.op = "verified"]_vars

\* the value of a visible field
FieldValue(k) == IF k = "FNAME" THEN FNAME ELSE IF k = "LNAME" THEN LNAME ELSE EMAIL

\* C23: an edit of the first name, last name or email changes that field's
\* value and sets that field's error to none; the errors of the other two
\* fields and the verification error are as they were (no validation pass
\* runs), and the token and the submission status are unchanged.
C23_EditClearsOwnErrorOnly ==
  [][(last'.op = "edit" /\ honeypotValue' = honeypotValue)
     => /\ \E k \in {"FNAME", "LNAME", "EMAIL"} :
             /\ FieldValue(k)' # FieldValue(k)
             /\ errors'[k] = None
             /\ \A j \in {"FNAME", "LNAME", "EMAIL"} \ {k} :
                  FieldValue(j)' = FieldValue(j) /\ errors'[j] = errors[j]
        /\ errors'.turnstile = errors.turnstile
        /\ ~last'.validated
        /\ turnstileToken' = turnstileToken
        /\ StatusUnchanged]_vars

\* the first name was typed over a map holding all four errors: only the
\* first name's error is gone
C23_Witness ==
  /\ last.op = "edit" /\ FNAME = <<"a">>
  /\ errors.FNAME = None /\ errors.LNAME = ErrLastRequired
  /\ errors.EMAIL = ErrEmailRequired /\ errors.turnstile = ErrVerifyMissing
  /\ turnstileToken = None /\ ~isSubmitting /\ ~isSuccess

\* the steps taken by the host: new props, or the removal of the component
HostOps == {"config", "host", "unmount"}

\* a mounted component with a non-managed widget configured and the script
\* loaded, holding no token, with no widget live in a mounted container and
\* no poll pending
DeadEnd ==
  /\ mounted /\ Truthy(turnstileSiteKey) /\ ~cfg.turnstileManaged
  /\ scriptLoaded
  /\ turnstileToken = None
  /\ liveWidgets \ detached = {}
  /\ ~checkInterval

\* no step of the user, of a widget, of a timer or of the network leaves
\* such a state, and none of them is an accepted submit
DeadEndIsClosed ==
  [][(DeadEnd /\ last'.op \notin HostOps)
     => (DeadEnd' /\ ~(last'.op = "submit" /\ last'.accepted))]_vars

\* C24: no reachable state of the mounted component with a non-managed
\* widget configured is a dead end, a state from which no continuation of
\* user and widget events obtains a token and has a submit accepted; in
\* particular none in which the form is displayed and idle.
C24_NoDeadEnd == (formShown /\ ~isSubmitting /\ inFlight = 0) => ~DeadEnd

\* the notification is rendered
ToastMounted == mounted /\ showToast

\* C25: once the notification has unmounted no timer of it is pending,
\* neither the exit timer nor the 300ms timer that calls onClose; and a
\* re-render of the card that tears its effect down and runs it again (here
\* an edit of a field) leaves no 300ms timer of the torn-down run pending.
C25_ToastTimersCancelled ==
  /\ [](~ToastMounted => (~toastExitTimer /\ toastCloseTimers = 0))
  /\ [][(last'.op = "edit" /\ ToastMounted) => toastCloseTimers' = 0]_vars

\* C26: a response (success or failure) that arrives after the component has
\* unmounted calls nothing on the widget API, renders no widget and changes
\* no state of the component: no notification, no status, no error, no
\* token, no handle; it only ends the pending call.
C26_LateResponseIgnored ==
  [][(~mounted /\ last'.op \in {"succeeded", "failed"})
     => /\ last'.reset = NoWidget
        /\ liveWidgets' = {} /\ turnstileWidgetIdRef' = NoWidget
        /\ inFlight' = inFlight - 1
        /\ UNCHANGED <<propVars, mounted, listeners, formVars,
                       internalIsSubmitting, internalIsSuccess, showToast,
                       turnstileToken, widgetVars, detached, scriptLoaded,
                       toastVars>>]_vars

\* the request of a component whose widget was removed at unmount has
\* failed: the submission it left behind is still marked submitting
C26_Witness ==
  /\ ~mounted /\ last.op = "failed" /\ inFlight = 0
  /\ Truthy(turnstileSiteKey) /\ nextWidgetId = 2 /\ liveWidgets = {}
  /\ turnstileToken # None /\ internalIsSubmitting /\ ~showToast

HandleReleased ==
  turnstileWidgetIdRef # NoWidget /\ turnstileWidgetIdRef' # turnstileWidgetIdRef

\* C28: in every reachable state of the mounted component a held token
\* implies that a handle is held and designates a live widget, and a step
\* that releases the handle (a re-acquisition after a change of site key,
\* theme, size or action) leaves no token held, so that a held token is one
\* delivered by the widget the handle designates.
C28_TokenBelongsToHeldWidget ==
  /\ []((mounted /\ turnstileToken # None)
         => (turnstileWidgetIdRef # NoWidget
             /\ turnstileWidgetIdRef \in liveWidgets))
  /\ [][(HandleReleased /\ mounted') => turnstileToken' = None]_vars

\* C29: whenever the form is displayed and a handle is held, the widget the
\* handle designates is live and attached to the container element that is
\* currently mounted, not to one that was discarded with an earlier
\* rendering of the form.
C29_HeldWidgetIsAttached ==
  (formShown /\ turnstileWidgetIdRef # NoWidget)
    => (turnstileWidgetIdRef \in liveWidgets /\ turnstileWidgetIdRef \notin detached)

\* C30: in uncontrolled mode at most one submission is in flight in every
\* reachable state, and a submit event handled while the status is
\* submitting starts neither a request nor a delay timer.
C30_OneSubmissionInFlight ==
  /\ [](~isControlled => inFlight <= 1)
  /\ [][(~isControlled /\ internalIsSubmitting /\ last'.op = "submit")
        => (last'.started = "none" /\ inFlight' = inFlight)]_vars

====
